---- MODULE Spec2Model ----
(***************************************************************************)
(* A model of the near-Earth-object database: the linking constructor of   *)
(* NEODatabase, its two exact-match lookups, the lazy query generator, and *)
(* the NEO serialization view with the export layer's post-processing.     *)
(*                                                                         *)
(* Object references are positions: an approach is its 1-based position in *)
(* the approach list handed to the constructor, a NEO is its position in   *)
(* the NEO list.  Python's None is the string None below when it stands    *)
(* where a string may stand, and NoNeo when it stands for a NEO reference. *)
(***************************************************************************)
EXTENDS Integers, Sequences, FiniteSets, TLC

\* ------------------------------------------------------------------ bounds
MaxNeos == 2
MaxApproaches == 3
MaxQueryApproaches == 3
MaxFilters == 2
MaxRequeryApproaches == 2
MaxIters == 2

\* ------------------------------------------------------------ value domains
\* Python's None where a str is expected (name, designation arguments).
None == "<None>"
\* Python's None as a NEO reference (CloseApproach.neo before linking, a
\* lookup miss, the None key of a dict keyed by NEOs).
NoNeo == 0

\* bool(x) of a str-or-None value: None and "" are falsy.
Truthy(x) == x # None /\ x # ""

\* Designations load_neos can produce: any str, "" included, and None for a
\* row that ends before the pdes column (csv.DictReader fills it with None).
Designations == {None, "", "433", "1036"}
\* Foreign keys load_approaches can produce: str(des), always a str.
ApproachDesignations == {"", "433", "1036"}
\* Names load_neos can produce: None (it replaces "" by None) or a str.
Names == {None, "Eros"}
Diameters == {"nan", "16.84"}
Hazards == {TRUE, FALSE}

\* NearEarthObject.__init__: the four attributes and an empty collection of
\* approaches.
NearEarthObject(pdes, name, diameter, pha) ==
    [designation |-> pdes, name |-> name, diameter |-> diameter,
     hazardous |-> pha, approaches |-> <<>>]

\* CloseApproach.__init__: the foreign key and an unset NEO reference.
CloseApproach(des) == [_designation |-> des, neo |-> NoNeo]

\* All sequences over S of length at most n.
SeqUpTo(S, n) == UNION {[1..k -> S] : k \in 0..n}

VARIABLES
    neos,                  \* the list of NearEarthObjects given to the constructor
    approaches,            \* the list of CloseApproaches given to the constructor
    _neos,                 \* NEODatabase._neos: designation -> NEO
    _designations,         \* NEODatabase._designations: name -> designation
    neos_with_approaches,  \* NEODatabase.neos_with_approaches
    status,                \* "unbuilt", "ready", or "failed" (constructor raised)
    error,                 \* the exception the constructor raised, "" if none
    iters,                 \* the generators returned by query, in creation order
    ret                    \* the last call made on the database / a record, and its result

vars == <<neos, approaches, _neos, _designations, neos_with_approaches,
          status, error, iters, ret>>

\* ------------------------------------------------------------- dictionaries
\* A dict is a function whose DOMAIN is the set of keys.
EmptyDict == [k \in {} |-> 0]

\* d[k] = v
DictSet(d, k, v) == [x \in DOMAIN d \cup {k} |-> IF x = k THEN v ELSE d[x]]

\* {neo.designation: neo for neo in neos}, built left to right, a later
\* entry replacing an earlier one with the same key.
RECURSIVE NeosByDesignation(_, _)
NeosByDesignation(ns, n) ==
    IF n = 0 THEN EmptyDict
    ELSE DictSet(NeosByDesignation(ns, n - 1), ns[n].designation, n)

\* {neo.name: neo.designation for neo in neos}; a NEO without a name is
\* entered under the key None.
RECURSIVE DesignationsByName(_, _)
DesignationsByName(ns, n) ==
    IF n = 0 THEN EmptyDict
    ELSE DictSet(DesignationsByName(ns, n - 1), ns[n].name, ns[n].designation)

\* ----------------------------------------------------------------- linking
\* The state the linking loop works on.
LinkState(ns, as, nwa, err) == [neos |-> ns, approaches |-> as, nwa |-> nwa, err |-> err]

\* LinkApproach with the back-reference forgotten: approach.neo is set but
\* the approach is not appended to the NEO's collection.
LinkApproachNoAppend(st, byDes, a) ==
    LET des == st.approaches[a]._designation IN
    IF des \notin DOMAIN byDes THEN [st EXCEPT !.err = "KeyError"]
    ELSE
      LET current_neo == byDes[des]
          linked == [st EXCEPT !.approaches[a].neo = current_neo]
      IN IF current_neo \in DOMAIN st.nwa
         THEN [linked EXCEPT !.err = "TypeError"]
         ELSE [linked EXCEPT !.nwa = DictSet(st.nwa, NoNeo, <<a>>)]

\* LinkApproach resolving the foreign key with dict.get and skipping the
\* approach on a miss instead of raising.
LinkApproachSkipUnknown(st, byDes, a) ==
    LET des == st.approaches[a]._designation IN
    IF des \notin DOMAIN byDes THEN st
    ELSE
      LET current_neo == byDes[des]
          linked == [st EXCEPT !.approaches[a].neo = current_neo,
                               !.neos[current_neo].approaches = Append(@, a)]
      IN IF current_neo \in DOMAIN st.nwa
         THEN [linked EXCEPT !.err = "TypeError"]
         ELSE [linked EXCEPT !.nwa = DictSet(st.nwa, NoNeo, <<a>>)]

\* One iteration of the constructor's loop, for the approach at position a.
\* self._neos[approach._designation] raises KeyError for an unknown key;
\* neos_with_approaches.get(current_neo) would hand back a list, which is
\* unhashable as a key (TypeError), had the NEO ever been entered as a key.
LinkApproach(st, byDes, a) ==
    LET des == st.approaches[a]._designation IN
    IF des \notin DOMAIN byDes THEN [st EXCEPT !.err = "KeyError"]
    ELSE
      LET current_neo == byDes[des]
          linked == [st EXCEPT !.approaches[a].neo = current_neo,
                               !.neos[current_neo].approaches = Append(@, a)]
      IN IF current_neo \in DOMAIN st.nwa
         THEN [linked EXCEPT !.err = "TypeError"]
         ELSE [linked EXCEPT !.nwa = DictSet(st.nwa, NoNeo, <<a>>)]

\* for approach in self.approaches: ... , stopping at the first exception.
RECURSIVE LinkAll(_, _, _)
LinkAll(st, byDes, a) ==
    IF a > Len(st.approaches) \/ st.err # "" THEN st
    ELSE LinkAll(LinkApproach(st, byDes, a), byDes, a + 1)

\* ------------------------------------------------------------------ lookups
\* get_neo_by_designation without the truthiness guard on its argument.
get_neo_by_designation_unguarded(byDes, designation) ==
    IF designation \in DOMAIN byDes THEN byDes[designation] ELSE NoNeo

\* NEODatabase.get_neo_by_designation
get_neo_by_designation(byDes, designation) ==
    IF Truthy(designation)
    THEN (IF designation \in DOMAIN byDes THEN byDes[designation] ELSE NoNeo)
    ELSE NoNeo

\* NEODatabase.get_neo_by_name
get_neo_by_name(byDes, byName, name) ==
    LET designation_by_name == IF name \in DOMAIN byName THEN byName[name] ELSE None
    IN get_neo_by_designation(byDes, designation_by_name)

NoCall == [op |-> "none"]

\* -------------------------------------------------------------------- query
\* A filter predicate is a pure boolean function of one approach; it is
\* given by the set of approaches (positions) it is true on.  The filters
\* mapping is the sequence of its values in insertion order, as
\* [filter_ for field, filter_ in filters.items()] lists them.

\* One evaluation of a predicate: which approach, which filter, its result.
Eval(a, f, r) == [a |-> a, f |-> f, r |-> r]

\* all(map(lambda f: f(approach), fs)) from filter j on: map is lazy and all
\* stops at the first false, so later predicates are not called.
RECURSIVE AllFrom(_, _, _)
AllFrom(filters, a, j) ==
    IF j > Len(filters) THEN [value |-> TRUE, evals |-> <<>>]
    ELSE IF a \notin filters[j]
         THEN [value |-> FALSE, evals |-> <<Eval(a, j, FALSE)>>]
         ELSE LET rest == AllFrom(filters, a, j + 1)
              IN [value |-> rest.value, evals |-> <<Eval(a, j, TRUE)>> \o rest.evals]

\* any(...) in place of all(...).
RECURSIVE AnyFrom(_, _, _)
AnyFrom(filters, a, j) ==
    IF j > Len(filters) THEN [value |-> FALSE, evals |-> <<>>]
    ELSE IF a \in filters[j]
         THEN [value |-> TRUE, evals |-> <<Eval(a, j, TRUE)>>]
         ELSE LET rest == AnyFrom(filters, a, j + 1)
              IN [value |-> rest.value, evals |-> <<Eval(a, j, FALSE)>> \o rest.evals]

all_map_any(filters, a) == AnyFrom(filters, a, 1)

\* all([f(approach) for f in fs]): the list is built before all looks at it,
\* so every predicate is called.
all_map_eager(filters, a) ==
    [value |-> \A j \in 1..Len(filters) : a \in filters[j],
     evals |-> [j \in 1..Len(filters) |-> Eval(a, j, a \in filters[j])]]

\* all(map(lambda f: f(approach), [filter_ for field, filter_ in filters.items()]))
all_map(filters, a) == AllFrom(filters, a, 1)

\* The loop body of query without its else branch: nothing passes an empty
\* filters mapping.
PassesNoElse(filters, a) ==
    IF filters # <<>> THEN all_map(filters, a)
    ELSE [value |-> FALSE, evals |-> <<>>]

\* The loop body of query: is the approach at position a yielded?
Passes(filters, a) ==
    IF filters # <<>> THEN all_map(filters, a)
    ELSE [value |-> TRUE, evals |-> <<>>]

\* The generator object query returns: nothing runs until the first next().
\* pos is the position in self.approaches the for loop reads next.
query(filters) ==
    [filters |-> filters, pos |-> 1, yielded |-> <<>>, evals |-> <<>>, done |-> FALSE]

\* Run a generator from where it is suspended to its next yield, or to the
\* end of self.approaches (StopIteration).  n is len(self.approaches).
RECURSIVE Resume(_, _)
Resume(it, n) ==
    IF it.done THEN it
    ELSE IF it.pos > n THEN [it EXCEPT !.done = TRUE]
    ELSE LET p == Passes(it.filters, it.pos)
             it2 == [it EXCEPT !.pos = @ + 1, !.evals = @ \o p.evals]
         IN IF p.value THEN [it2 EXCEPT !.yielded = Append(@, it.pos)]
            ELSE Resume(it2, n)

\* next(g) with every generator reading through one shared cursor over
\* self.approaches, as when the collection is a one-shot iterator.
next_shared(its, k, n) ==
    LET r == Resume(its[k], n)
    IN [i \in DOMAIN its |->
          IF i = k THEN r ELSE [its[i] EXCEPT !.pos = IF @ < r.pos THEN r.pos ELSE @]]

\* next(g) for the k-th generator: each call of query iterates the list
\* self.approaches with an iterator of its own.
next(its, k, n) == [its EXCEPT ![k] = Resume(its[k], n)]

\* The whole stream of query(filters), as list(db.query(filters)) collects it.
RECURSIVE Drain(_, _)
Drain(it, n) == IF it.done THEN it ELSE Drain(Resume(it, n), n)

\* -------------------------------------------------------------- serialize
\* NearEarthObject.serialize with the full name in place of the name.
serialize_fullname(neo) ==
    [designation |-> neo.designation,
     name |-> IF Truthy(neo.name) THEN neo.name ELSE neo.designation,
     diameter_km |-> neo.diameter,
     potentially_hazardous |-> neo.hazardous]

\* NearEarthObject.serialize
serialize(neo) ==
    [designation |-> neo.designation,
     name |-> neo.name,
     diameter_km |-> neo.diameter,
     potentially_hazardous |-> neo.hazardous]

\* write_to_csv, the NEO columns of one row: the serialized NEO with a None
\* name replaced by "", a None diameter by "nan" and the hazard flag by
\* "True" / "False".
csv_neo(neo) ==
    LET output_neo == serialize(neo) IN
    [output_neo EXCEPT
       !.name = IF @ = None THEN "" ELSE @,
       !.diameter_km = IF @ = None THEN "nan" ELSE @,
       !.potentially_hazardous = IF @ THEN "True" ELSE "False"]

\* write_to_json, the "neo" entry of one output: the serialized NEO with a
\* None name replaced by "", a None diameter by "NaN" and the hazard flag
\* as a bool.
json_neo(neo) ==
    LET output_neo == serialize(neo) IN
    [output_neo EXCEPT
       !.name = IF @ = None THEN "" ELSE @,
       !.diameter_km = IF @ = None THEN "NaN" ELSE @,
       !.potentially_hazardous = IF @ THEN TRUE ELSE FALSE]

\* The NEO part of what a writer emits for a stream of approaches.
WriteRows(results, as, ns, fmt) ==
    [k \in 1..Len(results) |->
        IF fmt = "csv" THEN csv_neo(ns[as[results[k]].neo])
        ELSE json_neo(ns[as[results[k]].neo])]

\* ----------------------------------------------------------------- actions
\* NEODatabase(neos, approaches)
Construct ==
    /\ status = "unbuilt"
    /\ LET byDes == NeosByDesignation(neos, Len(neos))
           st == LinkAll(LinkState(neos, approaches, EmptyDict, ""), byDes, 1)
       IN /\ _neos' = byDes
          /\ _designations' = DesignationsByName(neos, Len(neos))
          /\ neos' = st.neos
          /\ approaches' = st.approaches
          /\ neos_with_approaches' = st.nwa
          /\ error' = st.err
          /\ status' = IF st.err = "" THEN "ready" ELSE "failed"
    /\ UNCHANGED <<iters, ret>>

LookupDesignations == Designations
LookupNames == Names \cup {""}

\* What an operation that only reads the database leaves alone.
Unchanged_db ==
    UNCHANGED <<neos, approaches, _neos, _designations, neos_with_approaches,
                status, error>>

\* db.get_neo_by_designation(d)
GetNeoByDesignation ==
    /\ status = "ready"
    /\ \E d \in LookupDesignations :
         ret' = [op |-> "get_neo_by_designation", arg |-> d,
                 result |-> get_neo_by_designation(_neos, d)]
    /\ Unchanged_db /\ UNCHANGED iters

\* db.get_neo_by_name(n)
GetNeoByName ==
    /\ status = "ready"
    /\ \E n \in LookupNames :
         ret' = [op |-> "get_neo_by_name", arg |-> n,
                 result |-> get_neo_by_name(_neos, _designations, n)]
    /\ Unchanged_db /\ UNCHANGED iters

\* g = db.query(filters): the caller's first query, with a mapping of its
\* choice.
Query ==
    /\ status = "ready"
    /\ iters = <<>>
    /\ \E filters \in SeqUpTo(SUBSET (1..Len(approaches)), MaxFilters) :
         iters' = <<query(filters)>>
    /\ Unchanged_db /\ UNCHANGED ret

\* h = db.query(filters) again, with the mapping of a generator the caller
\* holds and keeps.
Requery ==
    /\ status = "ready"
    /\ Len(iters) < MaxIters
    /\ \E k \in 1..Len(iters) :
         iters' = Append(iters, query(iters[k].filters))
    /\ Unchanged_db /\ UNCHANGED ret

\* next(g) on a generator that has not raised StopIteration yet
NextItem ==
    /\ status = "ready"
    /\ \E k \in 1..Len(iters) :
         /\ ~iters[k].done
         /\ iters' = next(iters, k, Len(approaches))
    /\ Unchanged_db /\ UNCHANGED ret

\* neo.serialize()
Serialize ==
    /\ \E i \in 1..Len(neos) :
         ret' = [op |-> "serialize", arg |-> i, result |-> serialize(neos[i])]
    /\ Unchanged_db /\ UNCHANGED iters

\* write_to_csv(db.query(), filename) / write_to_json(db.query(), filename)
Write ==
    /\ status = "ready"
    /\ \E fmt \in {"csv", "json"} :
         ret' = [op |-> "write", arg |-> fmt,
                 result |-> WriteRows(Drain(query(<<>>), Len(approaches)).yielded,
                                      approaches, neos, fmt)]
    /\ Unchanged_db /\ UNCHANGED iters

\* The loaders' output: unlinked NEOs and approaches.
Init ==
    /\ neos \in SeqUpTo({NearEarthObject(d, n, "nan", FALSE) :
                           d \in Designations, n \in Names}, MaxNeos)
    /\ approaches \in SeqUpTo({CloseApproach(d) : d \in ApproachDesignations}, MaxApproaches)
    /\ _neos = EmptyDict
    /\ _designations = EmptyDict
    /\ neos_with_approaches = EmptyDict
    /\ status = "unbuilt"
    /\ error = ""
    /\ iters = <<>>
    /\ ret = NoCall

Next == Construct \/ GetNeoByDesignation \/ GetNeoByName

Spec == Init /\ [][Next]_vars

\* A linked data set of two NEOs, for the query engine, which reads only
\* self.approaches.
InitQuery ==
    /\ neos = <<NearEarthObject("433", "Eros", "16.84", FALSE),
                NearEarthObject("1036", None, "nan", TRUE)>>
    /\ approaches \in SeqUpTo({CloseApproach("433"), CloseApproach("1036")}, MaxQueryApproaches)
    /\ _neos = EmptyDict
    /\ _designations = EmptyDict
    /\ neos_with_approaches = EmptyDict
    /\ status = "unbuilt"
    /\ error = ""
    /\ iters = <<>>
    /\ ret = NoCall

NextQuery == Construct \/ Query \/ NextItem

SpecQuery == InitQuery /\ [][NextQuery]_vars

\* The same NEOs with approaches of one of them, for a caller that holds
\* several generators at once and makes lookups in between.
InitRequery ==
    /\ neos = <<NearEarthObject("433", "Eros", "16.84", FALSE),
                NearEarthObject("1036", None, "nan", TRUE)>>
    /\ approaches \in SeqUpTo({CloseApproach("433")}, MaxRequeryApproaches)
    /\ _neos = EmptyDict
    /\ _designations = EmptyDict
    /\ neos_with_approaches = EmptyDict
    /\ status = "unbuilt"
    /\ error = ""
    /\ iters = <<>>
    /\ ret = NoCall

NextRequery ==
    Construct \/ GetNeoByDesignation \/ GetNeoByName \/ Query \/ Requery \/ NextItem

SpecRequery == InitRequery /\ [][NextRequery]_vars

\* One NEO with every combination of attributes, and at most one approach.
InitSerialize ==
    /\ neos \in {<<NearEarthObject(d, n, k, h)>> :
                   d \in Designations, n \in Names, k \in Diameters, h \in Hazards}
    /\ approaches \in SeqUpTo({CloseApproach(d) : d \in ApproachDesignations}, 1)
    /\ _neos = EmptyDict
    /\ _designations = EmptyDict
    /\ neos_with_approaches = EmptyDict
    /\ status = "unbuilt"
    /\ error = ""
    /\ iters = <<>>
    /\ ret = NoCall

NextSerialize == Construct \/ Serialize \/ Write

SpecSerialize == InitSerialize /\ [][NextSerialize]_vars

\* ------------------------------------------------- construction and lookups
Positions(seq) == 1..Len(seq)

\* The precondition of the constructor: designations are a primary key.
UniqueDesignations ==
    \A i, j \in Positions(neos) : neos[i].designation = neos[j].designation => i = j

Occurrences(seq, x) == Cardinality({k \in Positions(seq) : seq[k] = x})

HasNeo(d) == \E i \in Positions(neos) : neos[i].designation = d

\* C1: after a successful construction over NEOs with unique designations,
\* every approach references the NEO carrying its foreign-key designation and
\* occurs exactly once in that NEO's collection, and every member of a NEO's
\* collection references that NEO.
LinksBijective ==
    (status = "ready" /\ UniqueDesignations) =>
      /\ \A a \in Positions(approaches) :
           \E i \in Positions(neos) :
              /\ neos[i].designation = approaches[a]._designation
              /\ approaches[a].neo = i
              /\ Occurrences(neos[i].approaches, a) = 1
      /\ \A i \in Positions(neos) :
           \A k \in Positions(neos[i].approaches) :
              /\ neos[i].approaches[k] \in Positions(approaches)
              /\ approaches[neos[i].approaches[k]].neo = i

\* Two NEOs, both with approaches, three approaches linked in all.
LinksBijectiveWitness ==
    /\ status = "ready" /\ UniqueDesignations
    /\ Len(neos) = 2 /\ Len(approaches) = 3
    /\ neos[1].approaches # <<>> /\ neos[2].approaches # <<>>

\* C2 (as claimed): get_neo_by_name(None) and get_neo_by_name("") miss on
\* every constructed database.
NameLookupUnsetOrEmptyMisses ==
    (ret.op = "get_neo_by_name" /\ ret.arg \in {None, ""}) => ret.result = NoNeo

\* C3 (as claimed): get_neo_by_designation(d) returns the NEO with
\* designation d for every d carried by an input NEO, and misses for every
\* other d.
DesignationLookupExact ==
    (ret.op = "get_neo_by_designation" /\ UniqueDesignations) =>
      IF HasNeo(ret.arg)
      THEN ret.result # NoNeo /\ neos[ret.result].designation = ret.arg
      ELSE ret.result = NoNeo

\* C3 (amended): get_neo_by_designation(d) returns the NEO with designation
\* d for every non-empty d carried by an input NEO, and misses for every d
\* that is absent, empty or unset - also when a NEO carries the empty or the
\* unset designation.
DesignationLookupNonEmpty ==
    (ret.op = "get_neo_by_designation" /\ UniqueDesignations) =>
      IF HasNeo(ret.arg) /\ Truthy(ret.arg)
      THEN ret.result # NoNeo /\ neos[ret.result].designation = ret.arg
      ELSE ret.result = NoNeo

\* A hit on the second NEO while another NEO carries the empty designation.
DesignationLookupWitness ==
    /\ ret.op = "get_neo_by_designation" /\ UniqueDesignations
    /\ ret.result = 2 /\ HasNeo("")

UnmatchedApproach ==
    \E a \in Positions(approaches) : ~HasNeo(approaches[a]._designation)

\* C4: when some approach's foreign key matches no NEO, the constructor
\* raises (KeyError) and yields no database; a database is produced only
\* with every approach linked.
UnmatchedForeignKeyFails ==
    /\ (status # "unbuilt" /\ UnmatchedApproach) =>
          (status = "failed" /\ error = "KeyError")
    /\ status = "ready" =>
          \A a \in Positions(approaches) : approaches[a].neo # NoNeo

\* The constructor raised at the second approach, after linking the first.
UnmatchedForeignKeyWitness ==
    /\ status = "failed" /\ error = "KeyError"
    /\ Len(approaches) >= 2
    /\ approaches[1].neo # NoNeo
    /\ ~HasNeo(approaches[2]._designation)

\* C10 (as claimed): neos_with_approaches is keyed by exactly the NEOs that
\* have an approach and maps each to that NEO's approaches in input order.
NeosWithApproachesAgrees ==
    status = "ready" =>
      /\ DOMAIN neos_with_approaches =
            {i \in Positions(neos) : neos[i].approaches # <<>>}
      /\ \A i \in DOMAIN neos_with_approaches :
            i \in Positions(neos) /\ neos_with_approaches[i] = neos[i].approaches

\* -------------------------------------------------------------------- query
\* Is approach a one for which every predicate of the mapping is true?
AllTrue(filters, a) == \A j \in Positions(filters) : a \in filters[j]

\* The positions 1..n on which every predicate is true, in increasing order.
RECURSIVE Matching(_, _)
Matching(filters, n) ==
    IF n = 0 THEN <<>>
    ELSE IF AllTrue(filters, n) THEN Append(Matching(filters, n - 1), n)
         ELSE Matching(filters, n - 1)

\* The members of seq that are in S, in the order of seq.
RECURSIVE Restrict(_, _)
Restrict(seq, S) ==
    IF seq = <<>> THEN <<>>
    ELSE IF Head(seq) \in S THEN <<Head(seq)>> \o Restrict(Tail(seq), S)
         ELSE Restrict(Tail(seq), S)

Members(seq) == {seq[k] : k \in Positions(seq)}

\* C5: a fully consumed query with an empty filters mapping has yielded every
\* approach given to the constructor, once each, in input order.
EmptyQueryYieldsAll ==
    \A g \in Positions(iters) :
       (iters[g].done /\ iters[g].filters = <<>>) =>
          iters[g].yielded = [k \in Positions(approaches) |-> k]

EmptyQueryWitness ==
    \E g \in Positions(iters) :
       /\ iters[g].done /\ iters[g].filters = <<>>
       /\ Len(iters[g].yielded) = 3
       /\ approaches[1].neo # approaches[2].neo

\* C6: a fully consumed query has yielded exactly the approaches on which
\* every supplied predicate is true, in input order; with two predicates f1
\* and f2 these are the approaches found in both the stream of query({f1})
\* and the stream of query({f2}).
QueryIsConjunction ==
    \A g \in Positions(iters) :
       iters[g].done =>
          LET y == iters[g].yielded
              fs == iters[g].filters
              n == Len(approaches)
          IN /\ y = Matching(fs, n)
             /\ Len(fs) = 2 =>
                  y = Restrict(Drain(query(<<fs[1]>>), n).yielded,
                               Members(Drain(query(<<fs[2]>>), n).yielded))

\* Two predicates that overlap without either containing the other; the
\* stream is the one approach they share.
QueryIsConjunctionWitness ==
    \E g \in Positions(iters) :
       /\ iters[g].done
       /\ iters[g].filters = <<{1, 2}, {2, 3}>>
       /\ iters[g].yielded = <<2>>

PrefixOf(s, t) == Len(s) <= Len(t) /\ \A k \in Positions(s) : s[k] = t[k]

\* C7: two query calls with the same mapping yield the same sequence,
\* whatever lookups and other iterations run in between: of two generators
\* with one mapping, what one has yielded so far is a prefix of what the
\* other has, and two exhausted ones have yielded the same.
RequeryYieldsSame ==
    \A g, h \in Positions(iters) :
       iters[g].filters = iters[h].filters =>
          /\ PrefixOf(iters[g].yielded, iters[h].yielded)
               \/ PrefixOf(iters[h].yielded, iters[g].yielded)
          /\ (iters[g].done /\ iters[h].done) => iters[g].yielded = iters[h].yielded

\* The second call was made after the first stream was exhausted, a lookup
\* was made, and both streams are exhausted with a non-empty result.
RequeryWitness ==
    /\ Len(iters) = 2
    /\ iters[1].done /\ iters[2].done
    /\ iters[1].filters # <<>>
    /\ iters[2].yielded = <<2>>
    /\ ret.op = "get_neo_by_name"

\* C9: the stream is lazy and in input order.  Predicates are called on the
\* approaches in input order, none skipped, the predicates of one approach
\* in mapping order and none after the first that is false; and while the
\* consumer has taken K items and not asked for more, no predicate has been
\* called on an approach after the K-th yielded one.
QueryIsLazy ==
    \A g \in Positions(iters) :
       LET e == iters[g].evals
           y == iters[g].yielded
       IN /\ \A k \in Positions(e) :
                IF k = 1 THEN e[k].a = 1 /\ e[k].f = 1
                ELSE \/ e[k].a = e[k - 1].a /\ e[k].f = e[k - 1].f + 1 /\ e[k - 1].r
                     \/ /\ e[k].a = e[k - 1].a + 1 /\ e[k].f = 1
                        /\ ~e[k - 1].r \/ e[k - 1].f = Len(iters[g].filters)
          /\ ~iters[g].done =>
                \A k \in Positions(e) : y # <<>> /\ e[k].a <= y[Len(y)]

\* One item taken of a two-predicate query over three approaches: the first
\* approach failed the first predicate, the second was yielded, the third
\* has not been looked at.
QueryIsLazyWitness ==
    \E g \in Positions(iters) :
       /\ ~iters[g].done
       /\ Len(approaches) = 3
       /\ iters[g].yielded = <<2>>
       /\ iters[g].evals = <<Eval(1, 1, FALSE), Eval(2, 1, TRUE), Eval(2, 2, TRUE)>>

\* ---------------------------------------------------------------- serialize
Unnamed(neo) == neo.name = None

\* C8 (as claimed): the name in a NEO's serialization view is "" when the
\* NEO has no name, and the stored name otherwise.
SerializedNameEmptyIfUnset ==
    ret.op = "serialize" =>
       ret.result.name = IF Unnamed(neos[ret.arg]) THEN "" ELSE neos[ret.arg].name

\* C8 (amended): the name in a NEO's serialization view is the stored name,
\* unset (None) when the NEO has no name; it is the writers, write_to_csv
\* and write_to_json, that put "" for an unset name in what they emit.
SerializedNameIsStoredName ==
    /\ ret.op = "serialize" => ret.result.name = neos[ret.arg].name
    /\ ret.op = "write" =>
         \A k \in Positions(ret.result) :
            LET neo == neos[approaches[k].neo]
            IN ret.result[k].name = IF Unnamed(neo) THEN "" ELSE neo.name

\* A NEO without a name has been serialized.
SerializedNameWitness ==
    /\ ret.op = "serialize"
    /\ Unnamed(neos[ret.arg])
    /\ ret.result.name = None

====
